---- MODULE Spec2Model ----
(***************************************************************************)
(* A model of the address book of main.py: the field validators (Phone,   *)
(* Birthday), the Record (contact) operations, the AddressBook (a         *)
(* UserDict, i.e. an insertion-ordered mapping from name to Record), the  *)
(* upcoming-birthday computation and the add_contact command handler.     *)
(*                                                                         *)
(* Strings are sequences of one-character strings, so that len(),         *)
(* isdigit(), strptime() and strftime() are computed character by         *)
(* character.  Record objects live in a heap (records) and the book maps  *)
(* names to heap references, as in Python.                                 *)
(***************************************************************************)
EXTENDS Integers, Sequences, FiniteSets, TLC

VARIABLES records, data, last, lastAdded, insOrder

vars == <<records, data, last, lastAdded, insOrder>>

(***************************************************************************)
(* Bounds of the model.                                                    *)
(***************************************************************************)
\* Record objects ever constructed in one run.
MaxRecords == 2
\* Longest phone list a Record is grown to.
MaxPhones == 3

(***************************************************************************)
(* Characters and strings.                                                 *)
(***************************************************************************)
Digits == <<"0", "1", "2", "3", "4", "5", "6", "7", "8", "9">>

\* str.isdigit() of one character (ASCII input alphabet).
IsDigit(c) == \E i \in 1..10 : Digits[i] = c

\* int() of one digit character.
DigitVal(c) == (CHOOSE i \in 1..10 : Digits[i] = c) - 1

\* The character of one decimal digit.
DigitChar(n) == Digits[n + 1]

\* str.isdigit(): non-empty and every character a digit.
StrIsDigit(s) == Len(s) > 0 /\ \A i \in 1..Len(s) : IsDigit(s[i])

\* int() of a string of digits.
RECURSIVE StrToInt(_)
StrToInt(s) ==
    IF Len(s) = 0 THEN 0
    ELSE 10 * StrToInt(SubSeq(s, 1, Len(s) - 1)) + DigitVal(s[Len(s)])

\* n written with exactly w digits, zero padded (n < 10^w).
RECURSIVE ZeroPad(_, _)
ZeroPad(n, w) ==
    IF w = 0 THEN <<>>
    ELSE Append(ZeroPad(n \div 10, w - 1), DigitChar(n % 10))

(***************************************************************************)
(* Phone (main.py 118-126).                                                *)
(***************************************************************************)
\* Phone.validate: len(value) == 10 and value.isdigit()
PhoneValidate(value) == Len(value) = 10 /\ StrIsDigit(value)

(***************************************************************************)
(* datetime.date arithmetic used by the birthday code.                     *)
(***************************************************************************)
IsLeap(y) == (y % 4 = 0) /\ ((y % 100 # 0) \/ (y % 400 = 0))

DaysInMonth(y, m) ==
    IF m = 2 THEN (IF IsLeap(y) THEN 29 ELSE 28)
    ELSE IF m \in {4, 6, 9, 11} THEN 30 ELSE 31

\* The (year, month, day) triples the date constructor accepts.
ValidDate(y, m, d) ==
    /\ y \in 1..9999
    /\ m \in 1..12
    /\ d \in 1..DaysInMonth(y, m)

MkDate(y, m, d) == [year |-> y, month |-> m, day |-> d]

RECURSIVE DaysBeforeMonth(_, _)
DaysBeforeMonth(y, m) ==
    IF m = 1 THEN 0 ELSE DaysBeforeMonth(y, m - 1) + DaysInMonth(y, m - 1)

\* date.toordinal(): 1 for 0001-01-01.
ToOrdinal(dt) ==
    LET y1 == dt.year - 1
    IN  y1 * 365 + (y1 \div 4) - (y1 \div 100) + (y1 \div 400)
        + DaysBeforeMonth(dt.year, dt.month) + dt.day

\* date.weekday(): 0 = Monday .. 6 = Sunday.
Weekday(dt) == (ToOrdinal(dt) + 6) % 7

\* date comparison a < b.
DateLess(a, b) ==
    \/ a.year < b.year
    \/ a.year = b.year /\ a.month < b.month
    \/ a.year = b.year /\ a.month = b.month /\ a.day < b.day

\* The day after dt.
NextDay(dt) ==
    IF dt.day < DaysInMonth(dt.year, dt.month)
    THEN MkDate(dt.year, dt.month, dt.day + 1)
    ELSE IF dt.month < 12 THEN MkDate(dt.year, dt.month + 1, 1)
    ELSE MkDate(dt.year + 1, 1, 1)

\* dt + timedelta(days=n), n >= 0.
RECURSIVE AddDays(_, _)
AddDays(dt, n) == IF n = 0 THEN dt ELSE AddDays(NextDay(dt), n - 1)

\* date.replace(year=y): ValueError when the day does not exist in year y.
ReplaceYear(dt, y) ==
    IF ValidDate(y, dt.month, dt.day)
    THEN [err |-> "none", date |-> MkDate(y, dt.month, dt.day)]
    ELSE [err |-> "ValueError", date |-> dt]

(***************************************************************************)
(* datetime.strptime(value, "%d.%m.%Y") and date.strftime("%Y.%m.%d").     *)
(***************************************************************************)
\* The positions of the character c in s.
Positions(s, c) == {i \in 1..Len(s) : s[i] = c}

\* %d: 3[0-1] | [1-2]\d | 0[1-9] | [1-9] | " "[1-9]
MatchDay(f) ==
    \/ Len(f) = 2 /\ StrIsDigit(f) /\ StrToInt(f) \in 1..31
    \/ Len(f) = 1 /\ StrIsDigit(f) /\ StrToInt(f) \in 1..9
    \/ Len(f) = 2 /\ f[1] = " " /\ IsDigit(f[2]) /\ DigitVal(f[2]) \in 1..9

\* %m: 1[0-2] | 0[1-9] | [1-9]
MatchMonth(f) ==
    \/ Len(f) = 2 /\ StrIsDigit(f) /\ StrToInt(f) \in 1..12
    \/ Len(f) = 1 /\ StrIsDigit(f) /\ StrToInt(f) \in 1..9

\* %Y: \d\d\d\d
MatchYear(f) == Len(f) = 4 /\ StrIsDigit(f)

\* The value of a %d field (a leading blank is skipped).
DayVal(f) == IF f[1] = " " THEN DigitVal(f[2]) ELSE StrToInt(f)

\* strptime(value, "%d.%m.%Y").date(): the whole string must match
\* day "." month "." year and name a date that exists, else ValueError.
Strptime(value) ==
    LET dots == Positions(value, ".")
        bad  == [err |-> "ValueError", date |-> MkDate(1, 1, 1)]
    IN  IF Cardinality(dots) # 2 THEN bad
        ELSE LET p1 == CHOOSE i \in dots : \A j \in dots : i <= j
                 p2 == CHOOSE i \in dots : \A j \in dots : j <= i
                 fd == SubSeq(value, 1, p1 - 1)
                 fm == SubSeq(value, p1 + 1, p2 - 1)
                 fy == SubSeq(value, p2 + 1, Len(value))
             IN  IF MatchDay(fd) /\ MatchMonth(fm) /\ MatchYear(fy)
                    /\ ValidDate(StrToInt(fy), StrToInt(fm), DayVal(fd))
                 THEN [err |-> "none",
                       date |-> MkDate(StrToInt(fy), StrToInt(fm), DayVal(fd))]
                 ELSE bad

\* date.strftime("%Y.%m.%d") for a year of four digits.
Strftime(dt) ==
    ZeroPad(dt.year, 4) \o <<".">> \o ZeroPad(dt.month, 2) \o <<".">>
        \o ZeroPad(dt.day, 2)

\* Birthday.validate (main.py 135-140): strptime succeeds.
BirthdayValidate(value) == Strptime(value).err = "none"

(***************************************************************************)
(* Record (main.py 145-174).  A Record is a heap object; records[r] is the *)
(* object with reference r.                                                *)
(***************************************************************************)
\* self.birthday = None
NoBirthday == <<>>

\* Record.__init__
NewRecord(name) == [name |-> name, phones |-> <<>>, birthday |-> NoBirthday]

MsgPhoneFormat == "Invalid phone number format. Should start from 0 and be 10 digits"
MsgDateFormat == "Invalid date format. Use DD.MM.YYYY"
MsgNotFound == "Phone number not found"

\* add_phone with the append done before the validation.
AddPhoneThenValidate(phones, number) ==
    IF PhoneValidate(number)
    THEN [err |-> "none", msg |-> "", phones |-> Append(phones, number)]
    ELSE [err |-> "ValueError", msg |-> MsgPhoneFormat,
          phones |-> Append(phones, number)]

\* Record.add_phone: Phone(phone_number) raises before the append.
AddPhone(phones, number) ==
    IF PhoneValidate(number)
    THEN [err |-> "none", msg |-> "", phones |-> Append(phones, number)]
    ELSE [err |-> "ValueError", msg |-> MsgPhoneFormat, phones |-> phones]

\* remove_phone that stops at the first match.
RemovePhoneFirst(phones, number) ==
    LET hits == Positions(phones, number)
    IN  IF hits = {} THEN phones
        ELSE LET i == CHOOSE k \in hits : \A j \in hits : k <= j
             IN  SubSeq(phones, 1, i - 1) \o SubSeq(phones, i + 1, Len(phones))

\* Record.remove_phone: the phones whose value differs from phone_number.
RECURSIVE RemovePhone(_, _)
RemovePhone(phones, number) ==
    IF Len(phones) = 0 THEN <<>>
    ELSE IF Head(phones) = number THEN RemovePhone(Tail(phones), number)
    ELSE <<Head(phones)>> \o RemovePhone(Tail(phones), number)

\* edit_phone without the return in the loop: every match is changed.
EditPhoneEvery(phones, old, new) ==
    IF Positions(phones, old) = {}
    THEN [err |-> "ValueError", msg |-> MsgNotFound, phones |-> phones]
    ELSE [err |-> "none", msg |-> "",
          phones |-> [i \in 1..Len(phones) |->
                         IF phones[i] = old THEN new ELSE phones[i]]]

\* Record.edit_phone: the first phone whose value is old_phone gets the value
\* new_phone as given; ValueError when no phone has the value old_phone.
EditPhone(phones, old, new) ==
    LET hits == Positions(phones, old)
    IN  IF hits = {}
        THEN [err |-> "ValueError", msg |-> MsgNotFound, phones |-> phones]
        ELSE LET i == CHOOSE k \in hits : \A j \in hits : k <= j
             IN  [err |-> "none", msg |-> "",
                  phones |-> [phones EXCEPT ![i] = new]]

\* Record.add_birthday: Birthday(new_birthday) raises before the assignment.
AddBirthday(birthday, value) ==
    IF BirthdayValidate(value)
    THEN [err |-> "none", msg |-> "", birthday |-> value]
    ELSE [err |-> "ValueError", msg |-> MsgDateFormat, birthday |-> birthday]

(***************************************************************************)
(* AddressBook.data: an insertion-ordered dict, a sequence of entries      *)
(* [key, value] with distinct keys; 0 stands for None.                     *)
(***************************************************************************)
None == 0

DictKeys(d) == [i \in 1..Len(d) |-> d[i].key]

DictHas(d, k) == \E i \in 1..Len(d) : d[i].key = k

\* d.get(k, None)
DictGet(d, k) ==
    IF DictHas(d, k)
    THEN d[CHOOSE i \in 1..Len(d) : d[i].key = k].value
    ELSE None

\* d.setdefault(k, v): a present key keeps its value.
DictSetDefault(d, k, v) ==
    IF \E i \in 1..Len(d) : d[i].key = k THEN d
    ELSE Append(d, [key |-> k, value |-> v])

\* A present key is taken out and put last.
DictSetMoveToEnd(d, k, v) ==
    LET Other(e) == e.key # k
    IN  Append(SelectSeq(d, Other), [key |-> k, value |-> v])

\* d[k] = v: a present key keeps its place, a new key goes last.
DictSet(d, k, v) ==
    IF DictHas(d, k)
    THEN [i \in 1..Len(d) |-> IF d[i].key = k THEN [key |-> k, value |-> v]
                                               ELSE d[i]]
    ELSE Append(d, [key |-> k, value |-> v])

\* del d[k]
RECURSIVE DictDel(_, _)
DictDel(d, k) ==
    IF Len(d) = 0 THEN <<>>
    ELSE IF Head(d).key = k THEN Tail(d)
    ELSE <<Head(d)>> \o DictDel(Tail(d), k)

(***************************************************************************)
(* AddressBook.get_upcoming_birthdays (main.py 193-218), with today the    *)
(* value of datetime.now().date().                                         *)
(***************************************************************************)
\* The shift with the test "weekday() > 5": Saturday is not shifted.
WeekendShiftSundayOnly(dt) == IF Weekday(dt) > 5 THEN 7 - Weekday(dt) ELSE 0

\* Days added to a congratulation date: 7 - weekday() on Saturday and Sunday.
WeekendShift(dt) == IF Weekday(dt) >= 5 THEN 7 - Weekday(dt) ELSE 0

\* Whether days_until_birthday is in the window.
InWindow(days) == 0 <= days /\ days <= 7

\* One pass of the loop body for the record rec: err is the exception raised,
\* hit whether an entry is appended, entry the entry.
UpcomingEntry(rec, today) ==
    LET skip   == [err |-> "none", hit |-> FALSE, entry |-> <<>>]
        raise  == [err |-> "ValueError", hit |-> FALSE, entry |-> <<>>]
    IN  IF rec.birthday = NoBirthday THEN skip
        ELSE LET parsed == Strptime(rec.birthday)
                 first  == ReplaceYear(parsed.date, today.year)
                 passed == DateLess(first.date, today)
                 second == IF passed THEN ReplaceYear(first.date, today.year + 1)
                           ELSE first
                 days   == ToOrdinal(second.date) - ToOrdinal(today)
             IN  IF parsed.err # "none" \/ first.err # "none" \/ second.err # "none"
                 THEN raise
                 ELSE IF ~InWindow(days) THEN skip
                 ELSE [err |-> "none", hit |-> TRUE,
                       entry |-> [name |-> rec.name,
                                  congratulation_date |->
                                      Strftime(AddDays(second.date,
                                                       WeekendShift(second.date)))]]

\* The loop over self.data.values() from entry i on, acc the list so far.
RECURSIVE UpcomingLoop(_, _, _, _, _)
UpcomingLoop(d, heap, today, i, acc) ==
    IF i > Len(d) THEN [err |-> "none", list |-> acc]
    ELSE LET e == UpcomingEntry(heap[d[i].value], today)
         IN  IF e.err # "none" THEN [err |-> e.err, list |-> <<>>]
             ELSE UpcomingLoop(d, heap, today, i + 1,
                               IF e.hit THEN Append(acc, e.entry) ELSE acc)

GetUpcomingBirthdays(d, heap, today) == UpcomingLoop(d, heap, today, 1, <<>>)

(***************************************************************************)
(* The state: the heap of Record objects, the book, and the last call     *)
(* with its outcome (before: the phones of the receiver before the call;  *)
(* had: what the book held under the key before the call).  lastAdded and insOrder are history variables: the    *)
(* Record last passed to add_record under each name and not deleted        *)
(* since, and the names in the order of their insertion.                   *)
(***************************************************************************)
Names == {"Alice", "Bob"}

NoDate == MkDate(1, 1, 1)

Call(op) ==
    [op |-> op, rec |-> None, key |-> "", a1 |-> <<>>, a2 |-> <<>>,
     before |-> <<>>, had |-> None, today |-> NoDate, err |-> "none",
     ret |-> None,
     list |-> <<>>, msg |-> ""]

Refs == 1..Len(records)

\* The sequence s without the element x.
RECURSIVE Without(_, _)
Without(s, x) ==
    IF Len(s) = 0 THEN <<>>
    ELSE IF Head(s) = x THEN Without(Tail(s), x)
    ELSE <<Head(s)>> \o Without(Tail(s), x)

InSeq(s, x) == \E i \in 1..Len(s) : s[i] = x

Init ==
    /\ records = <<>>
    /\ data = <<>>
    /\ last = Call("init")
    /\ lastAdded = [n \in Names |-> None]
    /\ insOrder = <<>>

\* Record(name)
Record_init(name) ==
    /\ Len(records) < MaxRecords
    /\ records' = Append(records, NewRecord(name))
    /\ last' = [Call("Record") EXCEPT !.key = name, !.ret = Len(records) + 1]
    /\ UNCHANGED <<data, lastAdded, insOrder>>

\* records[r].add_phone(number)
add_phone(r, number) ==
    /\ r \in Refs
    /\ PhoneValidate(number) => Len(records[r].phones) < MaxPhones
    /\ LET res == AddPhone(records[r].phones, number)
       IN  /\ records' = [records EXCEPT ![r].phones = res.phones]
           /\ last' = [Call("add_phone") EXCEPT
                           !.rec = r, !.a1 = number, !.before = records[r].phones,
                           !.err = res.err, !.msg = res.msg]
    /\ UNCHANGED <<data, lastAdded, insOrder>>

\* records[r].remove_phone(number)
remove_phone(r, number) ==
    /\ r \in Refs
    /\ records' = [records EXCEPT ![r].phones = RemovePhone(@, number)]
    /\ last' = [Call("remove_phone") EXCEPT
                    !.rec = r, !.a1 = number, !.before = records[r].phones]
    /\ UNCHANGED <<data, lastAdded, insOrder>>

\* records[r].edit_phone(old, new)
edit_phone(r, old, new) ==
    /\ r \in Refs
    /\ LET res == EditPhone(records[r].phones, old, new)
       IN  /\ records' = [records EXCEPT ![r].phones = res.phones]
           /\ last' = [Call("edit_phone") EXCEPT
                           !.rec = r, !.a1 = old, !.a2 = new,
                           !.before = records[r].phones,
                           !.err = res.err, !.msg = res.msg]
    /\ UNCHANGED <<data, lastAdded, insOrder>>

\* records[r].add_birthday(value)
add_birthday(r, value) ==
    /\ r \in Refs
    /\ LET res == AddBirthday(records[r].birthday, value)
       IN  /\ records' = [records EXCEPT ![r].birthday = res.birthday]
           /\ last' = [Call("add_birthday") EXCEPT
                           !.rec = r, !.a1 = value, !.a2 = records[r].birthday,
                           !.err = res.err, !.msg = res.msg]
    /\ UNCHANGED <<data, lastAdded, insOrder>>

\* book.add_record(records[r])
add_record(r) ==
    /\ r \in Refs
    /\ data' = DictSet(data, records[r].name, r)
    /\ last' = [Call("add_record") EXCEPT
                    !.rec = r, !.key = records[r].name,
                    !.had = DictGet(data, records[r].name)]
    /\ lastAdded' = [lastAdded EXCEPT ![records[r].name] = r]
    /\ insOrder' = IF InSeq(insOrder, records[r].name) THEN insOrder
                   ELSE Append(insOrder, records[r].name)
    /\ UNCHANGED records

\* book.find(name)
find(name) ==
    /\ last' = [Call("find") EXCEPT !.key = name, !.ret = DictGet(data, name)]
    /\ UNCHANGED <<records, data, lastAdded, insOrder>>

\* book.delete(name)
delete(name) ==
    /\ data' = IF DictHas(data, name) THEN DictDel(data, name) ELSE data
    /\ last' = [Call("delete") EXCEPT !.key = name, !.had = DictGet(data, name)]
    /\ lastAdded' = [lastAdded EXCEPT ![name] = None]
    /\ insOrder' = Without(insOrder, name)
    /\ UNCHANGED records

\* book.get_upcoming_birthdays() on the day today
get_upcoming_birthdays(today) ==
    /\ LET res == GetUpcomingBirthdays(data, records, today)
       IN  last' = [Call("get_upcoming_birthdays") EXCEPT
                        !.today = today, !.err = res.err, !.list = res.list]
    /\ UNCHANGED <<records, data, lastAdded, insOrder>>

(***************************************************************************)
(* The add_contact command handler (main.py 238-251) under the            *)
(* input_error decorator (main.py 222-235), which turns a ValueError into  *)
(* its text.                                                               *)
(***************************************************************************)
MsgPhoneAdded == "Phone added."
MsgContactAdded == "Contact added."
MsgArgs == "Give me name and phone please."

\* add_contact with add_record called before add_phone for a new name.
AddContactRecordFirst(d, heap, args) ==
    IF Len(args) # 2
    THEN [records |-> heap, data |-> d, added |-> None, msg |-> MsgArgs]
    ELSE LET name   == args[1]
             phone  == args[2]
             record == DictGet(d, name)
         IN  IF record # None
             THEN LET res == AddPhone(heap[record].phones, phone)
                  IN  IF res.err # "none"
                      THEN [records |-> heap, data |-> d, added |-> None,
                            msg |-> res.msg]
                      ELSE [records |-> [heap EXCEPT ![record].phones = res.phones],
                            data |-> d, added |-> None, msg |-> MsgPhoneAdded]
             ELSE LET res == AddPhone(NewRecord(name).phones, phone)
                      new == Len(heap) + 1
                  IN  [records |-> Append(heap,
                            [NewRecord(name) EXCEPT !.phones = res.phones]),
                       data |-> DictSet(d, name, new), added |-> new,
                       msg |-> IF res.err # "none" THEN res.msg
                               ELSE MsgContactAdded]

\* The heap, the book and the text returned; added is the reference passed to
\* add_record, or None.
AddContact(d, heap, args) ==
    IF Len(args) # 2
    THEN [records |-> heap, data |-> d, added |-> None, msg |-> MsgArgs]
    ELSE LET name   == args[1]
             phone  == args[2]
             record == DictGet(d, name)
         IN  IF record # None
             THEN LET res == AddPhone(heap[record].phones, phone)
                  IN  IF res.err # "none"
                      THEN [records |-> heap, data |-> d, added |-> None,
                            msg |-> res.msg]
                      ELSE [records |-> [heap EXCEPT ![record].phones = res.phones],
                            data |-> d, added |-> None, msg |-> MsgPhoneAdded]
             ELSE LET res == AddPhone(NewRecord(name).phones, phone)
                      new == Len(heap) + 1
                  IN  IF res.err # "none"
                      THEN [records |-> heap, data |-> d, added |-> None,
                            msg |-> res.msg]
                      ELSE [records |-> Append(heap,
                                [NewRecord(name) EXCEPT !.phones = res.phones]),
                            data |-> DictSet(d, name, new), added |-> new,
                            msg |-> MsgContactAdded]

\* add_contact(args, book)
add_contact(args) ==
    /\ Len(args) = 2 /\ DictGet(data, args[1]) = None => Len(records) < MaxRecords
    /\ Len(args) = 2 /\ DictGet(data, args[1]) # None /\ PhoneValidate(args[2])
           => Len(records[DictGet(data, args[1])].phones) < MaxPhones
    /\ LET res == AddContact(data, records, args)
       IN  /\ records' = res.records
           /\ data' = res.data
           /\ last' = [Call("add_contact") EXCEPT
                           !.key = IF Len(args) >= 1 THEN args[1] ELSE "",
                           !.a1 = IF Len(args) >= 2 THEN args[2] ELSE <<>>,
                           !.before = IF Len(args) = 2 /\ DictHas(data, args[1])
                                      THEN records[DictGet(data, args[1])].phones
                                      ELSE <<>>,
                           !.msg = res.msg]
           /\ lastAdded' = IF res.added = None THEN lastAdded
                           ELSE [lastAdded EXCEPT ![args[1]] = res.added]
           /\ insOrder' = IF res.added = None \/ InSeq(insOrder, args[1])
                          THEN insOrder ELSE Append(insOrder, args[1])

(***************************************************************************)
(* Inputs.                                                                 *)
(***************************************************************************)
P1 == <<"0", "5", "0", "1", "2", "3", "4", "5", "6", "7">>
P2 == <<"0", "6", "7", "7", "6", "5", "4", "3", "2", "1">>
\* nine digits
PShort == <<"0", "5", "0", "1", "2", "3", "4", "5", "6">>
\* ten characters, not all digits
PAlpha == <<"0", "5", "0", "1", "2", "3", "4", "5", "a", "b">>

PhoneInputs == {P1, P2, PShort, PAlpha}

\* The text "DD.MM.YYYY" of a day, a month and a year.
DateText(d, m, y) ==
    ZeroPad(d, 2) \o <<".">> \o ZeroPad(m, 2) \o <<".">> \o ZeroPad(y, 4)

\* "2020-06-01": not in the day.month.year pattern.
BadPattern == <<"2", "0", "2", "0", "-", "0", "6", "-", "0", "1">>

(***************************************************************************)
(* One contact and a book: the Record operations.                          *)
(***************************************************************************)
ContactBirthdays == {DateText(1, 6, 2020), DateText(31, 2, 2020), BadPattern}

\* A Record "Alice" has been constructed and the book is empty.
InitContact ==
    /\ records = <<NewRecord("Alice")>>
    /\ data = <<>>
    /\ last = Call("init")
    /\ lastAdded = [n \in Names |-> None]
    /\ insOrder = <<>>

NextContact ==
    \/ \E r \in Refs, p \in PhoneInputs : add_phone(r, p)
    \/ \E r \in Refs, p \in PhoneInputs : remove_phone(r, p)
    \/ \E r \in Refs, old \in PhoneInputs, new \in PhoneInputs :
           edit_phone(r, old, new)
    \/ \E r \in Refs, v \in ContactBirthdays : add_birthday(r, v)
    \/ \E r \in Refs : add_record(r)
    \/ \E n \in Names : delete(n)

SpecContact == InitContact /\ [][NextContact]_vars

\* A string of exactly 10 decimal digits.
TenDigits(p) ==
    /\ Len(p) = 10
    /\ \A i \in 1..Len(p) :
           p[i] \in {"0", "1", "2", "3", "4", "5", "6", "7", "8", "9"}

\* C1: after any sequence of add_phone, remove_phone and edit_phone calls,
\* every phone stored in a contact is a string of exactly 10 decimal digits,
\* and an edit_phone whose new value is not one ends in an error.
C1_EveryPhoneTenDigits ==
    /\ \A r \in Refs : \A i \in 1..Len(records[r].phones) :
           TenDigits(records[r].phones[i])
    /\ last.op = "edit_phone" /\ ~TenDigits(last.a2) => last.err # "none"

\* C2: a call of add_phone, edit_phone or add_birthday that ends in an error
\* leaves the phones and the birthday of the contact, and the book, as they
\* were before the call.
C2_NoMutationOnFailure ==
    [][(last'.op \in {"add_phone", "edit_phone", "add_birthday"}
            /\ last'.err # "none")
        => (records' = records /\ data' = data)]_vars

\* An add_phone has failed on a contact that has phones and a birthday and is
\* in the book.
C2_Witness ==
    /\ last.op = "add_phone" /\ last.err = "ValueError"
    /\ records[last.rec].phones # <<>>
    /\ records[last.rec].birthday # NoBirthday
    /\ DictGet(data, records[last.rec].name) = last.rec

\* C3: edit_phone(old, new) on a contact that has old changes the first entry
\* equal to old to new and nothing else (same length, same order, later
\* duplicates of old kept); without an entry equal to old it ends in the
\* not-found error.
C3_EditFirstMatchOnly ==
    [][last'.op = "edit_phone" =>
        LET ps  == records[last'.rec].phones
            qs  == records'[last'.rec].phones
            old == last'.a1
            new == last'.a2
        IN  IF InSeq(ps, old)
            THEN /\ last'.err = "none"
                 /\ Len(qs) = Len(ps)
                 /\ \E i \in 1..Len(ps) :
                        /\ ps[i] = old
                        /\ \A j \in 1..(i - 1) : ps[j] # old
                        /\ qs[i] = new
                        /\ \A j \in 1..Len(ps) : j # i => qs[j] = ps[j]
            ELSE /\ last'.err = "ValueError"
                 /\ last'.msg = MsgNotFound
                 /\ qs = ps]_vars

\* An edit_phone has replaced the first of two entries equal to old and has
\* kept the second and an entry in between.
C3_Witness ==
    /\ last.op = "edit_phone" /\ last.err = "none"
    /\ last.a1 # last.a2
    /\ Len(last.before) = 3
    /\ last.before[1] = last.a1 /\ last.before[3] = last.a1
    /\ last.before[2] # last.a1
    /\ records[last.rec].phones = <<last.a2, last.before[2], last.a1>>

\* C8: remove_phone(number) removes every entry equal to number and keeps the
\* others in their order; without such an entry it raises nothing and leaves
\* the phones, the birthday and the book unchanged.
C8_RemoveAllMatches ==
    [][last'.op = "remove_phone" =>
        LET ps     == records[last'.rec].phones
            qs     == records'[last'.rec].phones
            number == last'.a1
            Keep(x) == x # number
        IN  /\ last'.err = "none"
            /\ qs = SelectSeq(ps, Keep)
            /\ records'[last'.rec].birthday = records[last'.rec].birthday
            /\ data' = data
            /\ ~InSeq(ps, number) => records' = records]_vars

\* A remove_phone has removed two entries and kept the entry between them.
C8_Witness ==
    /\ last.op = "remove_phone"
    /\ Len(last.before) = 3
    /\ last.before[1] = last.a1 /\ last.before[3] = last.a1
    /\ last.before[2] # last.a1
    /\ records[last.rec].phones = <<last.before[2]>>

\* A remove_phone of a number the contact does not have.
C8_WitnessNoMatch ==
    /\ last.op = "remove_phone"
    /\ last.before # <<>> /\ ~InSeq(last.before, last.a1)

(***************************************************************************)
(* The book: add_record, find, delete and the order of the birthday list.  *)
(***************************************************************************)
\* 2025-05-30, a Friday.
BookToday == MkDate(2025, 5, 30)

\* A birthday two days after BookToday.
BookBirthdays == {DateText(1, 6, 2020)}

NextBook ==
    \/ \E n \in Names : Record_init(n)
    \/ \E r \in Refs : records[r].phones = <<>> /\ add_phone(r, P1)
    \/ \E r \in Refs, v \in BookBirthdays : add_birthday(r, v)
    \/ \E r \in Refs : add_record(r)
    \/ \E n \in Names : find(n)
    \/ \E n \in Names : delete(n)
    \/ get_upcoming_birthdays(BookToday)

SpecBook == Init /\ [][NextBook]_vars

\* C7: the book holds at most one Contact per name; find(name) returns the
\* Contact of the latest add_record for the name that no delete(name)
\* followed, or None; add_record puts the Contact it is given under its name,
\* changes no Contact (nothing of the earlier one is merged) and leaves the
\* entries of the other names as they were.
C7_LastAddWins ==
    /\ [](/\ \A i, j \in 1..Len(data) : i # j => data[i].key # data[j].key
          /\ \A n \in Names : DictGet(data, n) = lastAdded[n]
          /\ last.op = "find" => last.ret = lastAdded[last.key])
    /\ [][last'.op = "add_record" =>
            /\ DictGet(data', last'.key) = last'.rec
            /\ records' = records
            /\ \A n \in Names \ {last'.key} :
                   DictGet(data', n) = DictGet(data, n)]_vars

\* An add_record has replaced a Contact that has a phone and a birthday by
\* another Contact of the same name that has neither.
C7_Witness ==
    /\ last.op = "add_record"
    /\ last.had # None /\ last.had # last.rec
    /\ records[last.had].phones # <<>>
    /\ records[last.had].birthday # NoBirthday
    /\ records[last.rec].phones = <<>>
    /\ records[last.rec].birthday = NoBirthday
    /\ DictGet(data, last.key) = last.rec

\* The month and day of birthday text b fall on one of the 8 days from today.
WithinWeek(b, today) ==
    \E k \in 0..7 :
        LET dt == AddDays(today, k)
        IN  dt.month = Strptime(b).date.month /\ dt.day = Strptime(b).date.day

\* The names of the entries of a birthday list.
EntryNames(list) == [i \in 1..Len(list) |-> list[i].name]

\* C9: the list get_upcoming_birthdays returns has at most one entry per
\* contact and lists the qualifying contacts in the order in which their
\* names were inserted (a name added again keeps its place, a name deleted
\* and added again goes last); the call changes neither the book nor a
\* contact.
C9_ListInInsertionOrder ==
    /\ [](last.op = "get_upcoming_birthdays" /\ last.err = "none" =>
            LET names == EntryNames(last.list)
                Qualifies(n) ==
                    /\ DictHas(data, n)
                    /\ records[DictGet(data, n)].birthday # NoBirthday
                    /\ WithinWeek(records[DictGet(data, n)].birthday, last.today)
            IN  /\ \A i, j \in 1..Len(names) : i # j => names[i] # names[j]
                /\ names = SelectSeq(insOrder, Qualifies))
    /\ [][last'.op = "get_upcoming_birthdays" =>
            records' = records /\ data' = data]_vars

\* Both contacts are listed, Bob first: Bob was inserted before Alice.
C9_Witness ==
    /\ last.op = "get_upcoming_birthdays"
    /\ insOrder = <<"Bob", "Alice">>
    /\ EntryNames(last.list) = <<"Bob", "Alice">>

(***************************************************************************)
(* The birthday list: books of contacts with birthdays, asked on several   *)
(* days.  Each Record is constructed, given a birthday and added to the    *)
(* book before the next one is constructed.                                *)
(***************************************************************************)
\* "1.6.2020": strptime accepts a day and a month of one digit.
ShortFields == <<"1", ".", "6", ".", "2", "0", "2", "0">>

BirthdayInputs ==
    {DateText(30, 5, 2000), DateText(31, 5, 1990), DateText(1, 6, 2020),
     DateText(6, 6, 1985), DateText(7, 6, 1985), DateText(29, 5, 1999),
     DateText(2, 1, 2001), DateText(4, 1, 2001), DateText(26, 2, 1990),
     DateText(1, 3, 1990), DateText(29, 2, 2020), ShortFields,
     DateText(29, 2, 2021), BadPattern}

\* Fri 2025-05-30, Sat 2024-12-28, Wed 2025-12-31, Tue 2025-02-25 (2025 has
\* no 29 February), Mon 2024-02-26 and Fri 2024-03-01 (2024 has one).
Todays ==
    {MkDate(2025, 5, 30), MkDate(2024, 12, 28), MkDate(2025, 12, 31),
     MkDate(2025, 2, 25), MkDate(2024, 2, 26), MkDate(2024, 3, 1)}

InBook(r) == DictGet(data, records[r].name) = r

NextBirthdays ==
    \/ \E n \in Names :
           /\ ~DictHas(data, n)
           /\ \A r \in Refs : InBook(r)
           /\ Record_init(n)
    \/ \E r \in Refs, v \in BirthdayInputs :
           /\ ~InBook(r)
           /\ records[r].birthday = NoBirthday
           /\ add_birthday(r, v)
    \/ \E r \in Refs : ~InBook(r) /\ add_record(r)
    \/ \E t \in Todays : get_upcoming_birthdays(t)

SpecBirthdays == Init /\ [][NextBirthdays]_vars

\* The date of a text "YYYY.MM.DD".
DateOfText(s) ==
    MkDate(StrToInt(SubSeq(s, 1, 4)), StrToInt(SubSeq(s, 6, 7)),
           StrToInt(SubSeq(s, 9, 10)))

IsDateText(s) ==
    /\ Len(s) = 10 /\ s[5] = "." /\ s[8] = "."
    /\ StrIsDigit(SubSeq(s, 1, 4)) /\ StrIsDigit(SubSeq(s, 6, 7))
    /\ StrIsDigit(SubSeq(s, 9, 10))
    /\ ValidDate(DateOfText(s).year, DateOfText(s).month, DateOfText(s).day)

\* The month and day of birthday text b in today's year, or in the year after
\* when that is before today.
TargetOf(b, today) ==
    LET md   == Strptime(b).date
        this == MkDate(today.year, md.month, md.day)
    IN  IF DateLess(this, today) THEN MkDate(today.year + 1, md.month, md.day)
        ELSE this

\* The target date exists and is 0 to 7 days from today.
Upcoming(b, today) ==
    LET t == TargetOf(b, today)
    IN  /\ ValidDate(t.year, t.month, t.day)
        /\ ToOrdinal(t) - ToOrdinal(today) \in 0..7

HasEntry(list, name) == \E i \in 1..Len(list) : list[i].name = name

\* The list has an entry for exactly the contacts of the book whose birthday
\* is upcoming.
EntriesMatch(list, today) ==
    \A i \in 1..Len(data) :
        LET rec == records[data[i].value]
        IN  HasEntry(list, rec.name)
                <=> (rec.birthday # NoBirthday /\ Upcoming(rec.birthday, today))

\* C4: for every book and every today, get_upcoming_birthdays returns an
\* entry for a contact if and only if the contact has a birthday whose
\* days_until is 0 to 7 (a call that raises returns no entry: last.list is
\* empty then).
C4_EntryIffUpcoming ==
    last.op = "get_upcoming_birthdays" => EntriesMatch(last.list, last.today)

\* Every list that get_upcoming_birthdays does return has an entry for
\* exactly the contacts whose birthday is upcoming.
ReturnedEntriesMatch ==
    last.op = "get_upcoming_birthdays" /\ last.err = "none" =>
        EntriesMatch(last.list, last.today)

\* C6: get_upcoming_birthdays returns a result, whatever the book and today.
C6_NeverFails ==
    last.op = "get_upcoming_birthdays" => last.err = "none"

\* The congratulation date the weekend rule gives for the birthday date t.
Congratulation(t) ==
    IF Weekday(t) = 5 THEN AddDays(t, 2)
    ELSE IF Weekday(t) = 6 THEN AddDays(t, 1)
    ELSE t

\* C5: every congratulation_date returned is a Monday to Friday: the upcoming
\* birthday date itself on a weekday, the Monday 2 days later for a Saturday,
\* the Monday 1 day later for a Sunday.
C5_CongratulationOnWeekday ==
    last.op = "get_upcoming_birthdays" /\ last.err = "none" =>
        \A i \in 1..Len(last.list) :
            LET e == last.list[i]
                t == TargetOf(records[DictGet(data, e.name)].birthday, last.today)
            IN  /\ IsDateText(e.congratulation_date)
                /\ Weekday(DateOfText(e.congratulation_date)) \in 0..4
                /\ DateOfText(e.congratulation_date) = Congratulation(t)

\* A Saturday birthday (2025-05-31) and a Sunday birthday (2025-06-01) are
\* both listed for Monday 2025-06-02.
C5_Witness ==
    /\ last.op = "get_upcoming_birthdays"
    /\ last.today = MkDate(2025, 5, 30)
    /\ Len(last.list) = 2
    /\ Strptime(records[DictGet(data, last.list[1].name)].birthday).date.day = 31
    /\ Strptime(records[DictGet(data, last.list[2].name)].birthday).date.day = 1
    /\ \A i \in 1..2 :
           last.list[i].congratulation_date = Strftime(MkDate(2025, 6, 2))

(***************************************************************************)
(* The add command: add_contact on a book that only commands fill.         *)
(***************************************************************************)
ContactArgs ==
    {<<n, p>> : n \in Names, p \in PhoneInputs} \cup {<<n>> : n \in Names}

NextDispatcher ==
    \/ \E args \in ContactArgs : add_contact(args)
    \/ \E r \in Refs : add_birthday(r, DateText(1, 6, 2020))

SpecDispatcher == Init /\ [][NextDispatcher]_vars

C10_WitnessRefused ==
    /\ last.op = "add_contact" /\ last.msg = MsgPhoneFormat
    /\ ~DictHas(data, last.key)
    /\ Len(data) = 1

(***************************************************************************)
(* The whole program.                                                      *)
(***************************************************************************)
Next == NextContact \/ NextBook \/ NextBirthdays \/ NextDispatcher

Spec == Init /\ [][Next]_vars

====
